---------------------------- MODULE Spec2Model ----------------------------
(***************************************************************************)
(* GV50 tracker server: the TCP connection handler of                      *)
(* src/gv50/tcp_server.py (GV50TCPServerCSharpStyle), its connected-device *)
(* registry, its sent-command markers and the vehicle rows it reads and    *)
(* writes.  One action per handler; a handler runs as one step.            *)
(***************************************************************************)
EXTENDS Integers, Sequences, FiniteSets, TLC

(* ------------------------------ bounds -------------------------------- *)
\* connection ids 1..MaxConn
MaxConn == 2
\* the clock runs 0..MaxTime; one unit is 60 seconds
MaxTime == 1
\* cap on the telemetry log
MaxSamples == 1

Conns == 1..MaxConn
IPs == {"ip1", "ip2"}
\* the device of the model
IMEIs == {"X"}

\* Config.ALLOWED_IPS, the default of the environment: empty
ALLOWED_IPS == {}

(* ------------------------------ frames -------------------------------- *)
\* An inbound frame after read_callback's split(':') and split(','):
\* cat = response_parts[0], type = command_parts[0], imei = command_parts[2],
\* n = len(command_parts), f3 = command_parts[3], f4 = command_parts[4],
\* dts = the device timestamp field on the server's clock: -1 is a time
\* before the server started, -2 an empty field; term = the text ends in '$';
\* volt = the voltage field of a GTEPS in tenths of a volt, -1 when empty.
Frame(cat, type, imei, n, f3, f4, dts) ==
    [cat |-> cat, type |-> type, imei |-> imei, n |-> n, f3 |-> f3, f4 |-> f4,
     dts |-> dts, term |-> TRUE, volt |-> -1]

NoFrame == Frame("", "", "", 0, "", "", -2)

RespFrames ==
    {Frame("+RESP", t, i, 22, "", "", -1) :
        t \in {"GTFRI", "GTIGN", "GTEPS"}, i \in IMEIs}

BuffFrames ==
    {Frame("+BUFF", "GTFRI", i, 22, "", "", d) :
        i \in IMEIs, d \in {-1, MaxTime + 1}}

AckFrames ==
    {Frame("+ACK", "GTHBD", i, 7, "", "0000", -1) : i \in IMEIs}
    \cup {Frame("+ACK", "GTOUT", i, 7, "", s, -1) :
            i \in IMEIs, s \in {"0000", "0001"}}
    \cup {Frame("+ACK", "GTOUT", i, 6, "0001", "ts", -1) : i \in IMEIs}
    \cup {Frame("+ACK", "GTSRI", i, 7, "", "0000", -1) : i \in IMEIs}

Frames == RespFrames \cup BuffFrames \cup AckFrames

(* ------------------------------ state --------------------------------- *)
VARIABLES
    client_sockets,     \* the open client sockets (connection ids)
    conn_ip,            \* connection id -> peer IP ("" when not open)
    connected_devices,  \* IMEI -> client IP
    commands_sent,      \* the keys f"{imei}_{comando_pendente}" marked sent
    sent_at,            \* key -> clock value when it was marked
    allowed_ips,        \* Config.ALLOWED_IPS as loaded at start
    rejected,           \* the client IPs whose connections were refused
    handlers,           \* the sockets whose begin_receive thread is running
    listening,          \* start_listening's accept loop is running
    battery,            \* the battery fields of the vehicles rows
    notifications,      \* the push notifications sent, in order
    outbound,           \* the text of the frame generated last, in tokens
    thread,             \* connection id -> where its handler thread stands
    vehicles,           \* the vehicles collection: IMEI -> row
    vehicle_data,       \* the vehicle_data collection (append log)
    now,                \* the server clock
    rx,                 \* the frame handled by the last step, and its socket
    wire                \* what the last step wrote to sockets, in order

vars == <<client_sockets, conn_ip, connected_devices, commands_sent, sent_at,
          allowed_ips, rejected, handlers, listening, battery, notifications,
          outbound, thread, vehicles, vehicle_data, now, rx, wire>>

\* is_ip_allowed that takes an empty list as "nobody"
is_ip_allowed_empty_denies(ip) ==
    IF "0.0.0.0/0" \in allowed_ips THEN TRUE
    ELSE ip \in allowed_ips

\* Config.is_ip_allowed
is_ip_allowed(ip) ==
    IF allowed_ips = {} THEN TRUE
    ELSE IF "0.0.0.0/0" \in allowed_ips THEN TRUE
    ELSE ip \in allowed_ips

\* models.Vehicle: the fields the server reads and writes, with defaults
NewVehicle ==
    [bloqueado |-> FALSE, comandobloqueo |-> "None", comandotrocarip |-> "None",
     ignicao |-> FALSE]

\* no frame generated yet
NoText == [kind |-> "", parsed |-> << >>, at |-> 0, text |-> << >>]

\* a handler thread between two frames: waiting in recv, holding no row
AtRecv == [pc |-> "recv", imei |-> "", vehicle |-> NewVehicle, size |-> 0]

\* rx.pending is the comandobloqueo the handler found in the frame's row,
\* rx.parts is len(message.split(':')) of the read, rx.db tells whether the
\* store took writes while the read was handled
NoRx == [conn |-> 0, frame |-> NoFrame, pending |-> "", parts |-> 0, db |-> ""]

Init ==
    /\ client_sockets = {}
    /\ conn_ip = [c \in Conns |-> ""]
    /\ connected_devices = << >>
    /\ commands_sent = {}
    /\ sent_at = << >>
    /\ allowed_ips = ALLOWED_IPS
    /\ rejected = {}
    /\ handlers = {}
    /\ listening = TRUE
    /\ battery = << >>
    /\ notifications = << >>
    /\ outbound = NoText
    /\ thread = [c \in Conns |-> AtRecv]
    /\ vehicles \in {<< >>, [i \in IMEIs |-> NewVehicle]}
    /\ vehicle_data = << >>
    /\ now = 0
    /\ rx = NoRx
    /\ wire = << >>


(* ------------------- the handler's working state ---------------------- *)
\* What one handler run reads and writes: cd = connected_devices,
\* cs = commands_sent, sa = sent_at, v = vehicles, vd = vehicle_data,
\* w = the writes to sockets so far, db = the store takes writes.
Cur ==
    [cd |-> connected_devices, cs |-> commands_sent, sa |-> sent_at,
     v |-> vehicles, vd |-> vehicle_data, w |-> << >>, db |-> TRUE]

AckMsg == [kind |-> "ACK", bit |-> ""]
GTOUTCmd(bit) == [kind |-> "GTOUT", bit |-> bit]
GTSRICmd == [kind |-> "GTSRI", bit |-> ""]
NoCmd == [kind |-> "", bit |-> ""]

\* send_data that writes to the first open socket, whatever socket the
\* frame came from
send_data_first_socket(s, c, data) ==
    LET first == CHOOSE x \in client_sockets : \A y \in client_sockets : x <= y
    IN [s EXCEPT !.w = Append(@, [conn |-> first, kind |-> data.kind,
                                  bit |-> data.bit])]

\* send_data: client_socket.send(data)
send_data(s, c, data) ==
    [s EXCEPT !.w = Append(@, [conn |-> c, kind |-> data.kind, bit |-> data.bit])]

\* db_manager.upsert_vehicle of a partial update: set the given fields of the
\* row, creating the row with the model's defaults when it is missing; a
\* failure of the store is logged and the row stays as it was
upsert_vehicle(s, imei, fields) ==
    LET old == IF imei \in DOMAIN s.v THEN s.v[imei] ELSE NewVehicle
        new == [k \in DOMAIN old |->
                   IF k \in DOMAIN fields THEN fields[k] ELSE old[k]]
    IN IF s.db THEN [s EXCEPT !.v = (imei :> new) @@ @] ELSE s

\* the keys of commands_sent that start with f"{imei}_"
KeysOf(s, imei) == {k \in s.cs : k[1] = imei}

\* first-frame registration: if imei not in connected_devices: bind client_ip
register(s, c, imei) ==
    IF imei \in DOMAIN s.cd THEN s
    ELSE [s EXCEPT !.cd = (imei :> conn_ip[c]) @@ @]

(* -------------------- execute_immediate_commands ---------------------- *)
\* exec_block with the pending command cleared as soon as it is sent
exec_block_clearing(s, c, imei, vehicle) ==
    LET comando_pendente == vehicle.comandobloqueo
        command_key == <<imei, comando_pendente>>
        bit == IF comando_pendente = "True" THEN "1" ELSE "0"
    IN IF comando_pendente = "None" THEN s
       ELSE IF command_key \in s.cs THEN s
       ELSE LET s1 == send_data(s, c, GTOUTCmd(bit))
            IN [s1 EXCEPT !.cs = @ \cup {command_key},
                          !.sa = (command_key :> now) @@ @,
                          !.v[imei].comandobloqueo = "None"]

\* exec_block with the bit of the command inverted
exec_block_inverted_bit(s, c, imei, vehicle) ==
    LET comando_pendente == vehicle.comandobloqueo
        command_key == <<imei, comando_pendente>>
        bit == IF comando_pendente = "True" THEN "0" ELSE "1"
    IN IF comando_pendente = "None" THEN s
       ELSE IF command_key \in s.cs THEN s
       ELSE LET s1 == send_data(s, c, GTOUTCmd(bit))
            IN [s1 EXCEPT !.cs = @ \cup {command_key},
                          !.sa = (command_key :> now) @@ @]

\* 1. the pending block/unblock command: sent once per key, then marked
exec_block(s, c, imei, vehicle) ==
    LET comando_pendente == vehicle.comandobloqueo
        command_key == <<imei, comando_pendente>>
        bit == IF comando_pendente = "True" THEN "1" ELSE "0"
    IN IF comando_pendente = "None" THEN s
       ELSE IF command_key \in s.cs THEN s
       ELSE LET s1 == send_data(s, c, GTOUTCmd(bit))
            IN [s1 EXCEPT !.cs = @ \cup {command_key},
                          !.sa = (command_key :> now) @@ @]

\* 2. the pending IP change: sent, then the row read at the start is written
\*    back with comandotrocarip = False
exec_ip(s, c, imei, vehicle) ==
    IF vehicle.comandotrocarip = "True"
    THEN LET s1 == send_data(s, c, GTSRICmd)
             updated_vehicle == [vehicle EXCEPT !.comandotrocarip = "False"]
         IN IF s1.db THEN [s1 EXCEPT !.v = (imei :> updated_vehicle) @@ @]
            ELSE s1
    ELSE s

execute_immediate_commands(s, c, imei) ==
    IF imei \in DOMAIN s.v
    THEN LET vehicle == s.v[imei]
         IN exec_ip(exec_block(s, c, imei, vehicle), c, imei, vehicle)
    ELSE s

(* ------------- message_handler, as the server calls it ---------------- *)
\* save_vehicle_data: one sample appended to vehicle_data; a failure of the
\* store drops the sample
save_vehicle_data(s, imei, server_timestamp) ==
    IF s.db
    THEN [s EXCEPT !.vd = Append(@, [imei |-> imei, ts |-> server_timestamp])]
    ELSE s

\* update_vehicle_ignition: the row's ignicao set
update_vehicle_ignition(s, imei, ignition) ==
    upsert_vehicle(s, imei, [ignicao |-> ignition])

\* update_vehicle_blocking: bloqueado set, the pending command cleared
update_vehicle_blocking(s, imei, blocked) ==
    upsert_vehicle(s, imei,
        [bloqueado |-> blocked, comandobloqueo |-> "None"])

\* handle_incoming_message for a +RESP:GTFRI: the sample is appended, the row
\* is touched (created when missing); the caller sends the returned ACK
handle_incoming_message(s, imei) ==
    upsert_vehicle(save_vehicle_data(s, imei, now), imei, << >>)

\* get_pending_command: the reducer's command intent, none while a command
\* is in flight for the IMEI
get_pending_command(s, imei) ==
    IF imei \notin DOMAIN s.v \/ KeysOf(s, imei) # {} THEN NoCmd
    ELSE IF s.v[imei].comandobloqueo # "None"
         THEN GTOUTCmd(IF s.v[imei].comandobloqueo = "True" THEN "1" ELSE "0")
    ELSE IF s.v[imei].comandotrocarip = "True" THEN GTSRICmd
    ELSE NoCmd

\* send_command: the pending command of message_handler, when there is one
send_command(s, c, imei) ==
    LET pending_command == get_pending_command(s, imei)
    IN IF pending_command # NoCmd THEN send_data(s, c, pending_command) ELSE s

(* ------------------------ process_resp_message ------------------------ *)
\* protocol_parser._parse_gtfri gives no error: the text ends in '$' and has
\* 14 fields or more
parse_gtfri(f) == f.term /\ f.n >= 14

\* process_resp_message that writes the ACK only when the sample was stored
process_resp_message_ack_when_saved(s, c, f) ==
    IF f.type = "GTFRI" /\ f.n > 13
    THEN LET s1 == execute_immediate_commands(register(s, c, f.imei), c, f.imei)
             s2 == handle_incoming_message(s1, f.imei)
             s3 == IF s.db THEN send_data(s2, c, AckMsg) ELSE s2
         IN IF parse_gtfri(f) THEN send_command(s3, c, f.imei)
            ELSE send_command(s1, c, f.imei)
    ELSE IF f.type \in {"GTIGN", "GTIGF"} /\ f.n > 11
    THEN LET s1 == execute_immediate_commands(register(s, c, f.imei), c, f.imei)
             s2 == save_vehicle_data(s1, f.imei, now)
             s3 == update_vehicle_ignition(s2, f.imei, f.type = "GTIGN")
         IN send_command(s3, c, f.imei)
    ELSE s

process_resp_message(s, c, f) ==
    IF f.type = "GTFRI" /\ f.n > 13
    THEN LET s1 == execute_immediate_commands(register(s, c, f.imei), c, f.imei)
             s2 == handle_incoming_message(s1, f.imei)
             s3 == send_data(s2, c, AckMsg)
         IN IF parse_gtfri(f) THEN send_command(s3, c, f.imei)
            ELSE send_command(s1, c, f.imei)
    ELSE IF f.type \in {"GTIGN", "GTIGF"} /\ f.n > 11
    THEN LET s1 == execute_immediate_commands(register(s, c, f.imei), c, f.imei)
             s2 == save_vehicle_data(s1, f.imei, now)
             s3 == update_vehicle_ignition(s2, f.imei, f.type = "GTIGN")
         IN send_command(s3, c, f.imei)
    ELSE s

(* ------------------------ process_buff_message ------------------------ *)
\* only a GTFRI with a device time before the current time is handled
process_buff_message(s, c, f) ==
    IF f.type = "GTFRI" /\ f.n > 13 /\ f.dts # -2 /\ f.dts < now
    THEN LET s1 == execute_immediate_commands(s, c, f.imei)
             s2 == save_vehicle_data(s1, f.imei, f.dts)
         IN send_command(s2, c, f.imei)
    ELSE s

(* ------------------------ process_ack_message ------------------------- *)
\* status = command_parts[3] if len(command_parts) > 3 else "0000"
ack_status(f) == IF f.n > 3 THEN f.f3 ELSE "0000"

\* confirmed_blocked that takes every ACK:GTOUT as a block, whatever is pending
confirmed_blocked_ignoring_pending(vehicle) == TRUE

\* confirmed_blocked that takes an ACK with nothing pending as an unblock
confirmed_blocked_default_unblocked(vehicle) ==
    vehicle.comandobloqueo = "True"

\* confirmed_blocked that flips bloqueado when nothing is pending
confirmed_blocked_toggling(vehicle) ==
    IF vehicle.comandobloqueo = "True" THEN TRUE
    ELSE IF vehicle.comandobloqueo = "False" THEN FALSE
    ELSE ~vehicle.bloqueado

\* the blocked value an ACK:GTOUT confirms, from the pending command
confirmed_blocked(vehicle) ==
    IF vehicle.comandobloqueo = "True" THEN TRUE
    ELSE IF vehicle.comandobloqueo = "False" THEN FALSE
    ELSE vehicle.bloqueado

\* clear_commands_sent that leaves the entries in place
clear_commands_sent_skipped(s, imei) == s

\* the commands_sent entries of the IMEI removed
clear_commands_sent(s, imei) ==
    LET keys_to_remove == KeysOf(s, imei)
    IN [s EXCEPT !.cs = @ \ keys_to_remove,
                 !.sa = [k \in (DOMAIN @) \ keys_to_remove |-> @[k]]]

\* process_gtout that resolves the pending command on status 0000 only
process_gtout_success_only(s, f) ==
    LET imei == f.imei
        status == ack_status(f)
    IN IF (status = "0000" \/ status = "") /\ imei \in DOMAIN s.v
       THEN clear_commands_sent(
               update_vehicle_blocking(s, imei, confirmed_blocked(s.v[imei])),
               imei)
       ELSE s

process_gtout(s, f) ==
    LET imei == f.imei
        status == ack_status(f)
    IN IF status = "0000" \/ status = ""
       THEN IF imei \in DOMAIN s.v
            THEN clear_commands_sent(
                    update_vehicle_blocking(s, imei, confirmed_blocked(s.v[imei])),
                    imei)
            ELSE s
       ELSE IF imei \in DOMAIN s.v /\ s.v[imei].comandobloqueo # "None"
            THEN clear_commands_sent(
                    update_vehicle_blocking(s, imei, confirmed_blocked(s.v[imei])),
                    imei)
            ELSE s

\* process_ack_message that takes a heartbeat as a keepalive only
process_ack_message_keepalive_only(s, c, f) ==
    IF f.type = "GTHBD"
    THEN IF f.n > 2 THEN register(s, c, f.imei) ELSE s
    ELSE IF f.type = "GTOUT" /\ f.n >= 3 THEN process_gtout(s, f)
    ELSE s

process_ack_message(s, c, f) ==
    IF f.type = "GTHBD"
    THEN IF f.n > 2
         THEN execute_immediate_commands(register(s, c, f.imei), c, f.imei)
         ELSE s
    ELSE IF f.type = "GTOUT" /\ f.n >= 3 THEN process_gtout(s, f)
    ELSE s

(* --------------------------- read_callback ---------------------------- *)
read_callback(s, c, f) ==
    IF f.cat = "+RESP" THEN process_resp_message(s, c, f)
    ELSE IF f.cat = "+BUFF" THEN process_buff_message(s, c, f)
    ELSE IF f.cat = "+ACK" THEN process_ack_message(s, c, f)
    ELSE s

\* cleanup_connection: the socket leaves client_sockets and every IMEI
\* registered with the connection's client IP leaves connected_devices
cleanup_registry(cd, client_ip) ==
    [i \in {j \in DOMAIN cd : cd[j] # client_ip} |-> cd[i]]

(* ------------------------------ actions ------------------------------- *)
\* start_listening: accept, the IP check, the socket added to client_sockets,
\* the begin_receive thread started
Accept(c, ip) ==
    /\ listening
    /\ c \notin client_sockets
    /\ is_ip_allowed(ip)
    /\ client_sockets' = client_sockets \cup {c}
    /\ handlers' = handlers \cup {c}
    /\ conn_ip' = [conn_ip EXCEPT ![c] = ip]
    /\ rx' = NoRx
    /\ wire' = << >>
    /\ UNCHANGED <<connected_devices, commands_sent, sent_at, allowed_ips,
                   rejected, listening, battery, notifications, vehicles,
                   vehicle_data, now, outbound, thread>>

\* start_listening: a client IP that is not allowed: the socket is closed and
\* the loop goes on
Reject(c, ip) ==
    /\ listening
    /\ c \notin client_sockets
    /\ ~is_ip_allowed(ip)
    /\ rejected' = rejected \cup {ip}
    /\ rx' = NoRx
    /\ wire' = << >>
    /\ UNCHANGED <<client_sockets, conn_ip, connected_devices, commands_sent,
                   sent_at, allowed_ips, handlers, listening, battery,
                   notifications, vehicles, vehicle_data, now, outbound,
                   thread>>

\* begin_receive: one recv whose text splits at ':' into two parts, and its
\* read_callback; db tells whether the store takes writes meanwhile
Handle(c, f, db) ==
    /\ c \in client_sockets
    /\ c \in handlers
    /\ LET s == read_callback([Cur EXCEPT !.db = db], c, f)
       IN /\ Len(s.vd) <= MaxSamples
          /\ connected_devices' = s.cd
          /\ commands_sent' = s.cs
          /\ sent_at' = s.sa
          /\ vehicles' = s.v
          /\ vehicle_data' = s.vd
          /\ wire' = s.w
    /\ rx' = [conn |-> c, frame |-> f,
               pending |-> IF f.imei \in DOMAIN vehicles
                           THEN vehicles[f.imei].comandobloqueo ELSE "NoRow",
               parts |-> 2,
               db |-> IF db THEN "ok" ELSE "down"]
    /\ UNCHANGED <<client_sockets, conn_ip, allowed_ips, rejected, handlers,
                   listening, battery, notifications, now, outbound, thread>>

\* a frame handled while the store works
Receive(c, f) == Handle(c, f, TRUE)

\* begin_receive's exit (peer closed, socket error): cleanup_connection
Close(c) ==
    /\ c \in client_sockets
    /\ c \in handlers
    /\ client_sockets' = client_sockets \ {c}
    /\ handlers' = handlers \ {c}
    /\ connected_devices' = cleanup_registry(connected_devices, conn_ip[c])
    /\ conn_ip' = [conn_ip EXCEPT ![c] = ""]
    /\ rx' = NoRx
    /\ wire' = << >>
    /\ UNCHANGED <<commands_sent, sent_at, allowed_ips, rejected, listening,
                   battery, notifications, vehicles, vehicle_data, now,
                   outbound, thread>>

\* the admin tooling writes comandobloqueo of an existing row
AdminSetBlock(imei, b) ==
    /\ imei \in DOMAIN vehicles
    /\ vehicles[imei].comandobloqueo # b
    /\ vehicles' = [vehicles EXCEPT ![imei].comandobloqueo = b]
    /\ rx' = NoRx
    /\ wire' = << >>
    /\ UNCHANGED <<client_sockets, conn_ip, connected_devices, commands_sent,
                   sent_at, allowed_ips, rejected, handlers, listening,
                   battery, notifications, vehicle_data, now, outbound,
                   thread>>

\* the admin tooling sets comandotrocarip of an existing row
AdminSetIpChange(imei) ==
    /\ imei \in DOMAIN vehicles
    /\ vehicles[imei].comandotrocarip # "True"
    /\ vehicles' = [vehicles EXCEPT ![imei].comandotrocarip = "True"]
    /\ rx' = NoRx
    /\ wire' = << >>
    /\ UNCHANGED <<client_sockets, conn_ip, connected_devices, commands_sent,
                   sent_at, allowed_ips, rejected, handlers, listening,
                   battery, notifications, vehicle_data, now, outbound,
                   thread>>

\* 60 seconds pass
Tick ==
    /\ now < MaxTime
    /\ now' = now + 1
    /\ rx' = NoRx
    /\ wire' = << >>
    /\ UNCHANGED <<client_sockets, conn_ip, connected_devices, commands_sent,
                   sent_at, allowed_ips, rejected, handlers, listening,
                   battery, notifications, vehicles, vehicle_data, outbound,
                   thread>>

\* a receive timeout that ends the handler as a disconnect does
recv_timeout_disconnects(c) ==
    /\ c \in client_sockets
    /\ c \in handlers
    /\ client_sockets' = client_sockets \ {c}
    /\ handlers' = handlers \ {c}
    /\ connected_devices' = cleanup_registry(connected_devices, conn_ip[c])
    /\ conn_ip' = [conn_ip EXCEPT ![c] = ""]
    /\ wire' = << >>
    /\ UNCHANGED <<commands_sent, sent_at, allowed_ips, rejected, listening,
                   battery, notifications, vehicles, vehicle_data, now,
                   outbound, thread>>

\* begin_receive's socket.timeout: send_heartbeat_if_needed writes nothing
\* and the loop goes on
recv_timeout(c) ==
    /\ c \in client_sockets
    /\ c \in handlers
    /\ wire' = << >>
    /\ UNCHANGED <<client_sockets, conn_ip, connected_devices, commands_sent,
                   sent_at, allowed_ips, rejected, handlers, listening,
                   battery, notifications, vehicles, vehicle_data, now,
                   outbound, thread>>

Timeout(c) == recv_timeout(c) /\ rx' = NoRx

Next ==
    \/ \E c \in Conns, ip \in IPs : Accept(c, ip)
    \/ \E c \in Conns, f \in Frames : Receive(c, f)
    \/ \E c \in Conns : Close(c)
    \/ \E imei \in IMEIs, b \in {"True", "False"} : AdminSetBlock(imei, b)
    \/ \E imei \in IMEIs : AdminSetIpChange(imei)
    \/ Tick
    \/ \E c \in Conns : Timeout(c)

Spec == Init /\ [][Next]_vars

(* ------------------------ reading a step ------------------------------ *)
\* the status an ACK frame carries: field 3 when it is filled, else field 4
FrameStatus(f) == IF f.f3 # "" THEN f.f3 ELSE f.f4

IsGtoutAck(f, i) == f.cat = "+ACK" /\ f.type = "GTOUT" /\ f.imei = i

\* the commands among the writes of the last step
IsCommand(m) == m.kind \in {"GTOUT", "GTSRI"}
Commands(w) == SelectSeq(w, IsCommand)

\* the frames the server answers by looking for pending commands
Dispatches(f) ==
    \/ f.cat = "+RESP" /\ f.type \in {"GTFRI", "GTIGN", "GTIGF"}
    \/ f.cat = "+BUFF" /\ f.type = "GTFRI" /\ f.dts # -2 /\ f.dts < now
    \/ f.cat = "+ACK" /\ f.type = "GTHBD"

PendingOf(blocked) == IF blocked THEN "True" ELSE "False"

C2_NoCommandWhileInFlight ==
    [][\A i \in IMEIs :
         (/\ \E k \in commands_sent : k[1] = i /\ now - sent_at[k] < 1
          /\ rx'.conn # 0
          /\ rx'.frame.imei = i)
         => Commands(wire') = << >>]_vars

C4_IpChangeClearedOnlyOnAck ==
    [][\A i \in IMEIs :
         (/\ rx'.conn # 0
          /\ i \in DOMAIN vehicles
          /\ vehicles[i].comandotrocarip = "True"
          /\ vehicles'[i].comandotrocarip # "True")
         => /\ rx'.frame.cat = "+ACK"
            /\ rx'.frame.type = "GTSRI"
            /\ rx'.frame.imei = i
            /\ FrameStatus(rx'.frame) = "0000"]_vars

\* C5: handling a +BUFF frame leaves the vehicles collection as it was.
C5_BuffLeavesRowUnchanged ==
    [][(rx'.conn # 0 /\ rx'.frame.cat = "+BUFF") => vehicles' = vehicles]_vars

\* C6: for every registered IMEI at most one open connection matches its
\* registry entry.
C6_OneConnectionPerImei ==
    \A i \in DOMAIN connected_devices :
        Cardinality({c \in client_sockets :
                        conn_ip[c] = connected_devices[i]}) <= 1

\* C7: when the registry binds an IMEI to open connection a and a frame of
\* that IMEI is handled on another connection b, a is closed and the registry
\* entry refers to b.
C7_ReconnectDisplacesOldSession ==
    [][\A a \in Conns, b \in Conns, i \in IMEIs :
         (/\ a \in client_sockets
          /\ b \in client_sockets
          /\ conn_ip[a] # conn_ip[b]
          /\ i \in DOMAIN connected_devices
          /\ connected_devices[i] = conn_ip[a]
          /\ rx'.conn = b
          /\ rx'.frame.imei = i
          /\ Dispatches(rx'.frame))
         => /\ a \notin client_sockets'
            /\ i \in DOMAIN connected_devices'
            /\ connected_devices'[i] = conn_ip[b]]_vars

\* C8: handling one frame writes at most one command.
C8_AtMostOneCommandPerFrame == Len(Commands(wire)) <= 1

\* C9: among the writes of one frame no command comes before the ACK.
C9_AckBeforeCommand ==
    \A j \in 1..Len(wire), k \in 1..Len(wire) :
        (j < k /\ IsCommand(wire[j])) => wire[k].kind # "ACK"

HasGtout(w, p) ==
    \E n \in 1..Len(w) :
        /\ w[n].kind = "GTOUT"
        /\ w[n].bit = (IF p = "True" THEN "1" ELSE "0")

\* C11: when the marker of the pending command of an IMEI is 60 s old or
\* older (one clock unit) and the command is still pending, handling a frame
\* of that IMEI that is a dispatch opportunity (a heartbeat included) writes
\* the same GTOUT command again and renews the marker.
C11_StaleMarkerRetries ==
    [][\A i \in IMEIs, p \in {"True", "False"} :
         (/\ <<i, p>> \in commands_sent
          /\ now - sent_at[<<i, p>>] >= 1
          /\ i \in DOMAIN vehicles
          /\ vehicles[i].comandobloqueo = p
          /\ rx'.conn # 0
          /\ rx'.frame.imei = i
          /\ Dispatches(rx'.frame))
         => /\ HasGtout(wire', p)
            /\ sent_at'[<<i, p>>] = now]_vars

\* handling frame f of IMEI i on socket c in this state writes the GTOUT
\* command of the row's pending value
NextFrameEmits(i, c, f) ==
    /\ i \in DOMAIN vehicles
    /\ HasGtout(read_callback(Cur, c, f).w, vehicles[i].comandobloqueo)

\* C12: when the socket on which the last step wrote the GTOUT command of an
\* IMEI is closed while the command is still pending, then in the state after
\* the close a frame of that IMEI that is a dispatch opportunity, on whatever
\* socket it arrives, makes the server write the command again.
C12_ReissuedAfterConnectionLoss ==
    [][\A c \in Conns, i \in IMEIs :
         (/\ rx.conn = c
          /\ rx.frame.imei = i
          /\ i \in DOMAIN vehicles
          /\ vehicles[i].comandobloqueo # "None"
          /\ HasGtout(wire, vehicles[i].comandobloqueo)
          /\ c \in client_sockets
          /\ c \notin client_sockets')
         => \A c2 \in Conns, f \in Frames :
               (f.imei = i /\ Dispatches(f)) => NextFrameEmits(i, c2, f)']_vars

(* ------------------- a device that keeps reporting -------------------- *)
\* the frames of a device that only keeps its connection alive and
\* acknowledges block commands
HeartbeatFrame(i) == Frame("+ACK", "GTHBD", i, 7, "", "0000", -1)
GtoutAckFrame(i) == Frame("+ACK", "GTOUT", i, 7, "", "0000", -1)

Heartbeat(c) == \E i \in IMEIs : Receive(c, HeartbeatFrame(i))
GtoutAck(c) == \E i \in IMEIs : Receive(c, GtoutAckFrame(i))

LiveNext ==
    \/ \E c \in Conns, ip \in IPs : Accept(c, ip)
    \/ \E c \in Conns : Heartbeat(c)
    \/ \E c \in Conns : GtoutAck(c)
    \/ \E c \in Conns : Close(c)
    \/ \E imei \in IMEIs, b \in {"True", "False"} : AdminSetBlock(imei, b)
    \/ Tick

\* the device reconnects when it can and its heartbeats keep arriving; an
\* ACK:GTOUT may never arrive
LiveSpec ==
    /\ Init
    /\ [][LiveNext]_vars
    /\ WF_vars(\E c \in Conns, ip \in IPs : Accept(c, ip))
    /\ SF_vars(\E c \in Conns : Heartbeat(c))

\* C13: an ACK:GTOUT with status 0000 handled while p is pending leaves the
\* row with bloqueado = p and nothing pending; and whenever p is pending for
\* an IMEI whose frames keep arriving, the server later writes the GTOUT
\* command for p again, unless p stops being pending.
C13_KeepsOfferingUntilResolved ==
    \A i \in IMEIs, p \in {"True", "False"} :
        /\ []((/\ IsGtoutAck(rx.frame, i)
               /\ FrameStatus(rx.frame) = "0000"
               /\ rx.pending = p)
              => /\ vehicles[i].bloqueado = (p = "True")
                 /\ vehicles[i].comandobloqueo = "None")
        /\ []((i \in DOMAIN vehicles /\ vehicles[i].comandobloqueo = p)
              => <>(\/ ~(i \in DOMAIN vehicles /\ vehicles[i].comandobloqueo = p)
                    \/ (rx.frame.imei = i /\ HasGtout(wire, p))))

\* a location report of the IMEI, as the device sends it
LocationFrame(i) == Frame("+RESP", "GTFRI", i, 22, "", "", -1)

\* C14: handling a heartbeat of an IMEI that has a row and no marker writes
\* the GTOUT command of a pending comandobloqueo and the GTSRI command of a
\* pending comandotrocarip, and the commands it writes are those a location
\* report handled in the same state would make the server write.
C14_HeartbeatDispatches ==
    [][\A i \in IMEIs :
         (/\ rx'.conn # 0
          /\ rx'.frame = HeartbeatFrame(i)
          /\ i \in DOMAIN vehicles
          /\ \A k \in commands_sent : k[1] # i)
         => /\ vehicles[i].comandobloqueo # "None"
               => HasGtout(wire', vehicles[i].comandobloqueo)
            /\ vehicles[i].comandotrocarip = "True"
               => \E n \in 1..Len(wire') : wire'[n].kind = "GTSRI"
            /\ Commands(wire') =
                 Commands(process_resp_message(Cur, rx'.conn, LocationFrame(i)).w)]_vars

\* a heartbeat handled while a block was pending, answered with the command
C14_Witness ==
    /\ rx.frame.type = "GTHBD"
    /\ rx.pending = "True"
    /\ HasGtout(wire, "True")
    /\ <<rx.frame.imei, "True">> \in commands_sent

\* the GTSRI command is among the writes w
HasGtsri(w) == \E n \in 1..Len(w) : w[n].kind = "GTSRI"

\* C15: with comandobloqueo and comandotrocarip both pending and no marker, a
\* frame that is a dispatch opportunity makes the server write the GTOUT
\* command and no GTSRI command, and leaves comandotrocarip as it was; a
\* GTSRI command is written only when comandobloqueo is not pending.
C15_BlockBeforeIpChange ==
    [][\A i \in IMEIs :
         (/\ rx'.conn # 0
          /\ rx'.frame.imei = i
          /\ i \in DOMAIN vehicles)
         => /\ (/\ vehicles[i].comandobloqueo # "None"
                /\ vehicles[i].comandotrocarip = "True"
                /\ \A k \in commands_sent : k[1] # i
                /\ Dispatches(rx'.frame))
               => /\ HasGtout(wire', vehicles[i].comandobloqueo)
                  /\ ~HasGtsri(wire')
                  /\ vehicles'[i].comandotrocarip = "True"
            /\ HasGtsri(wire') => vehicles[i].comandobloqueo = "None"]_vars

\* C16: every command the server writes while handling a frame matches a flag
\* pending in the row of the frame's IMEI when the frame is handled: a GTOUT
\* command only with comandobloqueo pending, with bit 1 for True and bit 0 for
\* False; a GTSRI command only with comandotrocarip = True.
C16_CommandsMatchPendingFlags ==
    [][rx'.conn # 0 =>
         \A n \in 1..Len(wire') :
            LET i == rx'.frame.imei
            IN /\ wire'[n].kind = "GTOUT"
                  => /\ i \in DOMAIN vehicles
                     /\ vehicles[i].comandobloqueo # "None"
                     /\ wire'[n].bit =
                          (IF vehicles[i].comandobloqueo = "True" THEN "1" ELSE "0")
               /\ wire'[n].kind = "GTSRI"
                  => /\ i \in DOMAIN vehicles
                     /\ vehicles[i].comandotrocarip = "True"]_vars

\* a location report answered with the unblock command while the unblock was
\* pending
C16_Witness ==
    /\ rx.frame.type = "GTFRI"
    /\ rx.pending = "False"
    /\ HasGtout(wire, "False")
    /\ ~HasGtout(wire, "True")

AllowLists == {{}, {"ip1"}, {"0.0.0.0/0"}, {"0.0.0.0/0", "ip1"}}

AccessInit ==
    /\ client_sockets = {}
    /\ conn_ip = [c \in Conns |-> ""]
    /\ connected_devices = << >>
    /\ commands_sent = {}
    /\ sent_at = << >>
    /\ allowed_ips \in AllowLists
    /\ rejected = {}
    /\ handlers = {}
    /\ listening = TRUE
    /\ battery = << >>
    /\ notifications = << >>
    /\ outbound = NoText
    /\ thread = [c \in Conns |-> AtRecv]
    /\ vehicles \in {<< >>, [i \in IMEIs |-> NewVehicle]}
    /\ vehicle_data = << >>
    /\ now = 0
    /\ rx = NoRx
    /\ wire = << >>

AccessNext ==
    \/ \E c \in Conns, ip \in IPs : Accept(c, ip)
    \/ \E c \in Conns, ip \in IPs : Reject(c, ip)
    \/ \E c \in Conns, i \in IMEIs :
          Receive(c, HeartbeatFrame(i)) \/ Receive(c, LocationFrame(i))
    \/ \E c \in Conns : Close(c)
    \/ \E imei \in IMEIs, b \in {"True", "False"} : AdminSetBlock(imei, b)

AccessSpec == AccessInit /\ [][AccessNext]_vars

\* the client IPs the allowlist lets in: every IP when the list is empty or
\* holds 0.0.0.0/0, else the IPs that are in the list
ListAllows(ip) ==
    \/ allowed_ips = {}
    \/ "0.0.0.0/0" \in allowed_ips
    \/ ip \in allowed_ips

\* C20: is_ip_allowed lets in exactly the IPs the list allows; a client IP is
\* refused only when the list does not allow it, and such an IP has no open
\* socket, no registry entry and no frame handled; the step that refuses a
\* connection leaves the sockets, the registry, the vehicles collection and
\* the telemetry as they were and writes nothing.
C20_AllowlistGatesConnections ==
    [][/\ \A ip \in IPs :
             /\ is_ip_allowed(ip)' <=> ListAllows(ip)'
             /\ ip \in rejected' => ~ListAllows(ip)'
             /\ ~ListAllows(ip)'
                => /\ \A c \in client_sockets' : conn_ip'[c] # ip
                   /\ \A i \in DOMAIN connected_devices' :
                         connected_devices'[i] # ip
                   /\ rx'.conn # 0 => conn_ip'[rx'.conn] # ip
       /\ rejected' # rejected
          => /\ UNCHANGED <<client_sockets, conn_ip, connected_devices, vehicles,
                vehicle_data, outbound, thread>>
             /\ wire' = << >>]_vars

\* behind a list that holds ip1 only: ip2 was refused, a socket from ip1 is
\* open, registered and has delivered a sample
C20_Witness ==
    /\ allowed_ips = {"ip1"}
    /\ rejected = {"ip2"}
    /\ \E c \in client_sockets : conn_ip[c] = "ip1"
    /\ \E i \in DOMAIN connected_devices : connected_devices[i] = "ip1"
    /\ vehicle_data # << >>

(* ------------------- faults: accept, framing, store ------------------- *)
\* a location report followed by bytes after its '$' (a line end), 22 fields
UnterminatedFrame(i) == [LocationFrame(i) EXCEPT !.term = FALSE]

\* a frame whose header is none of +RESP, +BUFF, +ACK
UnknownHeaderFrame(i) == Frame("+XXXX", "GTFRI", i, 22, "", "", -1)

\* a +RESP frame whose report type the server does not know
UnknownTypeFrame(i) == Frame("+RESP", "GTXXX", i, 22, "", "", -1)

\* the first 9 fields of a location report, the rest still on its way
HeadFrame(i) == [LocationFrame(i) EXCEPT !.n = 9, !.term = FALSE]

\* the rest of that report: 13 fields and the '$', no header and no ':'
TailFrame(i) == [LocationFrame(i) EXCEPT !.cat = "", !.type = "", !.n = 13]

FaultFrames ==
    UNION {{LocationFrame(i), HeartbeatFrame(i), UnterminatedFrame(i),
            UnknownHeaderFrame(i), UnknownTypeFrame(i), HeadFrame(i)} :
           i \in IMEIs}

\* start_listening, then begin_receive's getpeername() raising before the
\* try: the socket is in client_sockets, the thread is gone, no cleanup runs
AcceptReset(c, ip) ==
    /\ listening
    /\ c \notin client_sockets
    /\ is_ip_allowed(ip)
    /\ client_sockets' = client_sockets \cup {c}
    /\ conn_ip' = [conn_ip EXCEPT ![c] = ip]
    /\ rx' = NoRx
    /\ wire' = << >>
    /\ UNCHANGED <<connected_devices, commands_sent, sent_at, allowed_ips,
                   rejected, handlers, listening, battery, notifications,
                   vehicles, vehicle_data, now, outbound, thread>>

\* start_listening: accept() raises while the server is running: the error
\* is logged and the loop is left
AcceptError ==
    /\ listening
    /\ listening' = FALSE
    /\ rx' = NoRx
    /\ wire' = << >>
    /\ UNCHANGED <<client_sockets, conn_ip, connected_devices, commands_sent,
                   sent_at, allowed_ips, rejected, handlers, battery,
                   notifications, vehicles, vehicle_data, now, outbound,
                   thread>>

\* begin_receive: one recv whose text does not split at ':' into two parts
\* (parts = 1: no ':' in it, parts = 3: two frames in it); read_callback
\* handles nothing. f is the frame the text holds (twice when parts = 3).
ReceiveRaw(c, parts, f) ==
    /\ c \in client_sockets
    /\ c \in handlers
    /\ parts # 2
    /\ rx' = [conn |-> c, frame |-> f, pending |-> "", parts |-> parts,
               db |-> "ok"]
    /\ wire' = << >>
    /\ UNCHANGED <<client_sockets, conn_ip, connected_devices, commands_sent,
                   sent_at, allowed_ips, rejected, handlers, listening,
                   battery, notifications, vehicles, vehicle_data, now,
                   outbound, thread>>

\* a frame handled while every write to the store fails
ReceiveDbDown(c, f) == Handle(c, f, FALSE)

FaultNext ==
    \/ \E c \in Conns, ip \in IPs : Accept(c, ip)
    \/ \E c \in Conns, ip \in IPs : AcceptReset(c, ip)
    \/ AcceptError
    \/ \E c \in Conns, f \in FaultFrames : Receive(c, f)
    \/ \E c \in Conns, i \in IMEIs : ReceiveDbDown(c, LocationFrame(i))
    \/ \E c \in Conns, i \in IMEIs :
          ReceiveRaw(c, 1, TailFrame(i)) \/ ReceiveRaw(c, 3, LocationFrame(i))
    \/ \E c \in Conns : Close(c)
    \/ \E imei \in IMEIs, b \in {"True", "False"} : AdminSetBlock(imei, b)

FaultSpec == Init /\ [][FaultNext]_vars

\* C21: a socket is in client_sockets only while its handler runs, and every
\* registered IMEI has the client IP of an open socket: whichever way a
\* handler exits, its socket and its registrations are gone.
C21_EveryExitCleansUp ==
    /\ \A c \in client_sockets : c \in handlers
    /\ \A i \in DOMAIN connected_devices :
          \E c \in client_sockets : conn_ip[c] = connected_devices[i]

\* C22: the accept loop is running in every state: no accept error ends it,
\* so a later connection attempt is still accepted.
C22_AcceptLoopSurvivesErrors == listening

\* the server cannot parse the frame: the text does not end in '$', or the
\* header or the report type is not one it knows
Unparsable(f) ==
    \/ ~f.term
    \/ f.cat \notin {"+RESP", "+BUFF", "+ACK"}
    \/ f.type \notin {"GTFRI", "GTIGN", "GTIGF", "GTEPS", "GTHBD", "GTOUT",
                      "GTSRI"}

NextReportStored(c, i) ==
    LET s == read_callback(Cur, c, LocationFrame(i))
    IN /\ s.vd = Append(vehicle_data, [imei |-> i, ts |-> now])
       /\ \E n \in 1..Len(s.w) :
             s.w[n] = [conn |-> c, kind |-> AckMsg.kind, bit |-> AckMsg.bit]

C25_SplitFrameIsAssembled ==
    [][\A i \in IMEIs :
         (/\ rx.conn # 0
          /\ rx.frame = HeadFrame(i)
          /\ rx'.conn = rx.conn
          /\ rx'.parts = 1
          /\ rx'.frame = TailFrame(i))
         => /\ vehicle_data' = read_callback(Cur, rx.conn, LocationFrame(i)).vd
            /\ wire' = read_callback(Cur, rx.conn, LocationFrame(i)).w]_vars

\* C26: when one read delivers two location reports, the step has the result
\* of handling the first and then the second: two samples stored, the writes
\* of the first before the writes of the second.
C26_TwoFramesInOneRead ==
    [][(rx'.conn # 0 /\ rx'.parts = 3)
         => LET c == rx'.conn
                f == rx'.frame
                s1 == read_callback(Cur, c, f)
                s2 == read_callback(s1, c, f)
            IN /\ vehicle_data' = s2.vd
               /\ wire' = s2.w]_vars

(* ------------------- sample timestamps and the log -------------------- *)
\* C29: the sample stored for a location report has the server's clock as
\* its timestamp, except for a +BUFF report whose device timestamp is
\* present and in the past, which has the device timestamp; a +BUFF report
\* with a missing or future device timestamp is stored too, with the clock.
C29_SampleTimestamp ==
    [][(/\ rx'.conn # 0
        /\ rx'.frame.type = "GTFRI"
        /\ rx'.frame.cat \in {"+RESP", "+BUFF"})
         => LET f == rx'.frame
                server_timestamp ==
                    IF f.cat = "+BUFF" /\ f.dts # -2 /\ f.dts < now
                    THEN f.dts ELSE now
            IN vehicle_data' =
                 Append(vehicle_data,
                        [imei |-> f.imei, ts |-> server_timestamp])]_vars

\* the report types that carry a location
LocationBearing ==
    {"GTFRI", "GTIGN", "GTIGF", "GTEPS", "GTPNA", "GTPFA", "GTMPN", "GTMPF",
     "GTBTC", "GTSTC"}

\* C30: every step keeps the samples stored so far, in place and unchanged,
\* and a step that handles a +RESP or +BUFF frame of a location-bearing type
\* stores exactly one more sample, of the frame's IMEI.
C30_OneSamplePerLocationFrame ==
    [][/\ Len(vehicle_data') >= Len(vehicle_data)
       /\ SubSeq(vehicle_data', 1, Len(vehicle_data)) = vehicle_data
       /\ (/\ rx'.conn # 0
           /\ rx'.frame.cat \in {"+RESP", "+BUFF"}
           /\ rx'.frame.type \in LocationBearing)
          => /\ Len(vehicle_data') = Len(vehicle_data) + 1
             /\ vehicle_data'[Len(vehicle_data')].imei = rx'.frame.imei]_vars

(* --------------------- _handle_external_power -------------------------- *)
\* the clock of the battery model runs to this many minutes
MaxMinutes == 11

\* at most this many notifications are kept
MaxNotifications == 2

\* the threshold of _handle_external_power, 11.5 V, in tenths of a volt
LowBatteryThreshold == 115

\* the voltages of the model, in tenths of a volt
Voltages == {110, 112, 115, 120}

\* GTEPS frames: a voltage, or none (volt = -1: the field is empty)
EpsFrames ==
    {[Frame(cat, "GTEPS", i, 22, "", "", -1) EXCEPT !.volt = v] :
        cat \in {"+RESP", "+BUFF"}, i \in IMEIs, v \in Voltages \cup {-1}}

\* the parsed GTEPS frame: voltage at field 17
parse_gteps(f) ==
    [imei |-> f.imei,
     category |-> IF f.cat = "+BUFF" THEN "BUFF" ELSE "RESP",
     battery_voltage |-> f.volt]

\* the battery fields of a row that has none yet
NewBattery ==
    [bateriavoltagem |-> -1, bateriabaixa |-> FALSE, ultimoalertabateria |-> -1]

\* the low-battery test with the threshold itself counted as low
battery_low_inclusive(voltage) == voltage <= LowBatteryThreshold

\* if voltage < 11.5
battery_low(voltage) == voltage < LowBatteryThreshold

\* _handle_external_power: the row's battery fields and the notifications
\* after a parsed GTEPS; a BUFF frame changes neither
handle_external_power(b, ns, parsed) ==
    LET imei == parsed.imei
        voltage == parsed.battery_voltage
        old == IF imei \in DOMAIN b THEN b[imei] ELSE NewBattery
        vehicle_update ==
            IF voltage < 0 THEN old
            ELSE IF battery_low(voltage)
            THEN [bateriavoltagem |-> voltage, bateriabaixa |-> TRUE,
                  ultimoalertabateria |-> now]
            ELSE [old EXCEPT !.bateriavoltagem = voltage,
                             !.bateriabaixa = FALSE]
    IN IF parsed.category = "BUFF" THEN [b |-> b, ns |-> ns]
       ELSE [b |-> (imei :> vehicle_update) @@ b,
             ns |-> IF voltage >= 0 /\ battery_low(voltage)
                    THEN Append(ns, [imei |-> imei, voltage |-> voltage,
                                     at |-> now])
                    ELSE ns]

\* process_message of a GTEPS frame
ExternalPower(f) ==
    /\ LET r == handle_external_power(battery, notifications, parse_gteps(f))
       IN /\ Len(r.ns) <= MaxNotifications
          /\ battery' = r.b
          /\ notifications' = r.ns
    /\ rx' = [NoRx EXCEPT !.frame = f, !.parts = 2, !.db = "ok"]
    /\ wire' = << >>
    /\ UNCHANGED <<client_sockets, conn_ip, connected_devices, commands_sent,
                   sent_at, allowed_ips, rejected, handlers, listening,
                   vehicles, vehicle_data, now, outbound, thread>>

\* a minute passes
Minute ==
    /\ now < MaxMinutes
    /\ now' = now + 1
    /\ rx' = NoRx
    /\ wire' = << >>
    /\ UNCHANGED <<client_sockets, conn_ip, connected_devices, commands_sent,
                   sent_at, allowed_ips, rejected, handlers, listening,
                   battery, notifications, vehicles, vehicle_data, outbound,
                   thread>>

BatteryNext ==
    \/ \E f \in EpsFrames : ExternalPower(f)
    \/ Minute

BatterySpec == Init /\ [][BatteryNext]_vars

\* a +RESP:GTEPS frame with a voltage has just been handled
EpsHandled(f) == f.type = "GTEPS" /\ f.cat = "+RESP" /\ f.volt >= 0

\* a low-battery notification for the IMEI went out less than 10 minutes ago
RecentAlert(i) ==
    \E n \in 1..Len(notifications) :
        /\ notifications[n].imei = i
        /\ notifications[n].at > now - 10

\* C27: a +RESP:GTEPS frame with a voltage below the threshold updates the
\* row, and sends a low-battery notification exactly when none was sent for
\* the IMEI in the 10 minutes before.
C27_LowBatteryDedup ==
    [][(EpsHandled(rx'.frame) /\ rx'.frame.volt < LowBatteryThreshold)
         => /\ battery'[rx'.frame.imei].bateriavoltagem = rx'.frame.volt
            /\ \/ /\ ~RecentAlert(rx'.frame.imei)
                  /\ Len(notifications') = Len(notifications) + 1
               \/ /\ RecentAlert(rx'.frame.imei)
                  /\ notifications' = notifications]_vars

\* C28: after a +RESP:GTEPS frame with voltage v the row has
\* bateriavoltagem = v and bateriabaixa = (v < 11.5 V): false at the
\* threshold itself, true below it.
C28_BatteryLowIsStrict ==
    [][EpsHandled(rx'.frame)
         => LET row == battery'[rx'.frame.imei]
                v == rx'.frame.volt
            IN /\ row.bateriavoltagem = v
               /\ row.bateriabaixa = (v < LowBatteryThreshold)
               /\ v = LowBatteryThreshold => ~row.bateriabaixa]_vars

\* a reading of exactly 11.5 V handled after a low one: the row holds 11.5 V
\* and is not low
C28_Witness ==
    /\ EpsHandled(rx.frame)
    /\ rx.frame.volt = LowBatteryThreshold
    /\ notifications # << >>
    /\ battery[rx.frame.imei].bateriavoltagem = LowBatteryThreshold
    /\ ~battery[rx.frame.imei].bateriabaixa

(* --------------------------- idle connections ------------------------- *)
\* Config.CONNECTION_TIMEOUT, 3600 s, in units of the clock (60 s)
CONNECTION_TIMEOUT == 60

\* the clock of the idle model runs to here
MaxIdle == 62

\* a receive timeout, which comes after CONNECTION_TIMEOUT without data
IdleTimeout(c) ==
    /\ now >= CONNECTION_TIMEOUT
    /\ recv_timeout(c)
    /\ rx' = [NoRx EXCEPT !.conn = c, !.db = "timeout"]

\* 60 seconds pass
IdleTick ==
    /\ now < MaxIdle
    /\ now' = now + 1
    /\ rx' = NoRx
    /\ wire' = << >>
    /\ UNCHANGED <<client_sockets, conn_ip, connected_devices, commands_sent,
                   sent_at, allowed_ips, rejected, handlers, listening,
                   battery, notifications, vehicles, vehicle_data, outbound,
                   thread>>

\* Connections are made and heard from at time 0 only; afterwards the peers
\* are silent and do not close.
IdleNext ==
    \/ \E c \in Conns, ip \in IPs : now = 0 /\ Accept(c, ip)
    \/ \E c \in Conns, i \in IMEIs : now = 0 /\ Receive(c, HeartbeatFrame(i))
    \/ \E c \in Conns : IdleTimeout(c)
    \/ IdleTick

IdleSpec == Init /\ [][IdleNext]_vars

\* C31: a connection silent since time 0 is closed and its registrations
\* are removed by the time the clock is one sweeper period (60 s) past
\* CONNECTION_TIMEOUT.
C31_StaleConnectionsAreSwept ==
    now > CONNECTION_TIMEOUT + 1
    => /\ client_sockets = {}
       /\ connected_devices = << >>

C36_BlockedFollowsConfirmedCommand ==
    [][\A i \in IMEIs :
         (/\ rx'.conn # 0
          /\ IsGtoutAck(rx'.frame, i)
          /\ i \in DOMAIN vehicles)
         => /\ KeysOf(Cur, i) = {<<i, "True">>} => vehicles'[i].bloqueado
            /\ KeysOf(Cur, i) = {<<i, "False">>} => ~vehicles'[i].bloqueado]_vars

\* cleanup_connection of connection c, run now, leaves IMEI i registered
CloseKeeps(c, i) ==
    i \in DOMAIN cleanup_registry(connected_devices, conn_ip[c])

\* C38: when a frame on connection c1 registers an IMEI, the cleanup of any
\* other open connection leaves that IMEI registered.
C38_CleanupRemovesOwnDevicesOnly ==
    [][\A c1 \in Conns, c2 \in Conns, i \in IMEIs :
         (/\ rx'.conn = c1
          /\ i \notin DOMAIN connected_devices
          /\ i \in DOMAIN connected_devices'
          /\ c2 # c1
          /\ c2 \in client_sockets')
         => CloseKeeps(c2, i)']_vars

\* C39: while no cleanup_connection is under way, every registered IMEI has
\* an open connection from the recorded client IP, and with no connection
\* open the registry is empty.
C39_NoStaleRegistryEntries ==
    (\A c \in Conns : thread[c].pc # "cleanup")
    => /\ \A i \in DOMAIN connected_devices :
             \E c \in client_sockets : conn_ip[c] = connected_devices[i]
       /\ client_sockets = {} => connected_devices = << >>

\* the frame is an ACK:GTOUT the server reads as a success
SuccessfulGtoutAck(f) ==
    /\ f.cat = "+ACK"
    /\ f.type = "GTOUT"
    /\ f.n >= 3
    /\ ack_status(f) \in {"0000", ""}

IgnitionFrames ==
    {Frame(cat, type, i, 22, "", "", -1) :
        cat \in {"+RESP", "+BUFF"}, type \in {"GTIGN", "GTIGF"}, i \in IMEIs}

\* the parsed ignition frame
parse_ignition(f) ==
    [imei |-> f.imei,
     category |-> IF f.cat = "+BUFF" THEN "BUFF" ELSE "RESP",
     message_type |-> f.type]

\* the ignition handlers with a buffered frame handled as a live one
handle_ignition_buffered_as_live(s, ns, parsed) ==
    LET ignicao == parsed.message_type = "GTIGN"
    IN [s |-> upsert_vehicle(s, parsed.imei, [ignicao |-> ignicao]),
        ns |-> Append(ns, [imei |-> parsed.imei,
                           kind |-> IF ignicao THEN "ignition_on"
                                    ELSE "ignition_off",
                           at |-> now])]

\* _handle_ignition_on (GTIGN) and _handle_ignition_off (GTIGF): the row's
\* ignicao and one notification, both skipped for a BUFF frame
handle_ignition(s, ns, parsed) ==
    LET ignicao == parsed.message_type = "GTIGN"
    IN IF parsed.category = "BUFF" THEN [s |-> s, ns |-> ns]
       ELSE [s |-> upsert_vehicle(s, parsed.imei, [ignicao |-> ignicao]),
             ns |-> Append(ns, [imei |-> parsed.imei,
                                kind |-> IF ignicao THEN "ignition_on"
                                         ELSE "ignition_off",
                                at |-> now])]

\* process_message of an ignition frame
Ignition(f) ==
    /\ LET r == handle_ignition(Cur, notifications, parse_ignition(f))
       IN /\ Len(r.ns) <= MaxNotifications
          /\ vehicles' = r.s.v
          /\ notifications' = r.ns
    /\ rx' = [NoRx EXCEPT !.frame = f, !.parts = 2, !.db = "ok"]
    /\ wire' = << >>
    /\ UNCHANGED <<client_sockets, conn_ip, connected_devices, commands_sent,
                   sent_at, allowed_ips, rejected, handlers, listening,
                   battery, vehicle_data, now, outbound, thread>>

IgnitionNext ==
    \/ \E f \in IgnitionFrames : Ignition(f)
    \/ Minute

IgnitionSpec == Init /\ [][IgnitionNext]_vars

\* a live ignition frame
LiveIgnition(f) == f.cat = "+RESP" /\ f.type \in {"GTIGN", "GTIGF"}

\* C34: a +RESP ignition frame leaves ignicao true for GTIGN and false for
\* GTIGF and sends one ignition-on or ignition-off notification; every
\* other step, a +BUFF ignition frame among them, changes no row and sends
\* no notification, so ignicao is that of the last +RESP ignition frame.
C34_IgnitionFollowsLastLiveFrame ==
    [][LET f == rx'.frame
       IN /\ LiveIgnition(f)
             => /\ vehicles'[f.imei].ignicao = (f.type = "GTIGN")
                /\ notifications' =
                     Append(notifications,
                            [imei |-> f.imei,
                             kind |-> IF f.type = "GTIGN" THEN "ignition_on"
                                      ELSE "ignition_off",
                             at |-> now])
          /\ ~LiveIgnition(f)
             => /\ vehicles' = vehicles
                /\ notifications' = notifications]_vars

\* ignition on, then a buffered GTIGN that changed nothing, with the row
\* still showing the last live frame, a GTIGF
C34_Witness ==
    /\ rx.frame.cat = "+BUFF"
    /\ rx.frame.type = "GTIGN"
    /\ rx.frame.imei \in DOMAIN vehicles
    /\ ~vehicles[rx.frame.imei].ignicao
    /\ Len(notifications) = 2
    /\ notifications[1].kind = "ignition_on"
    /\ notifications[2].kind = "ignition_off"

(* --------------------------- outbound frames -------------------------- *)
\* the parsed reports an ACK is asked for: with and without report type and
\* IMEI
ParsedReports ==
    [report_type : {"GTFRI", "GTIGN", ""},
     protocol_version : {"060228"},
     imei : IMEIs \cup {""},
     count : {"0001", "00A2"}]

\* generate_acknowledgment: the f-string, token by token; << >> is None
generate_acknowledgment(parsed_data, timestamp) ==
    IF parsed_data.report_type = "" \/ parsed_data.imei = "" THEN << >>
    ELSE <<"+ACK:", parsed_data.report_type, ",",
           parsed_data.protocol_version, ",", parsed_data.imei, ",", ",",
           parsed_data.count, "$", ",", timestamp, ",", "11F0", "$">>

\* execute_immediate_commands: the AT+GTOUT text
gtout_text(bit) == <<"AT+GTOUT=gv50,", bit, ",,,,,,0,,,,,,,000", bit, "$">>

\* an ACK is generated for a parsed report
GenerateAck(parsed_data) ==
    /\ outbound' = [kind |-> "ACK", parsed |-> parsed_data, at |-> now,
                    text |-> generate_acknowledgment(parsed_data,
                                                     ToString(now))]
    /\ UNCHANGED <<client_sockets, conn_ip, connected_devices, commands_sent,
                   sent_at, allowed_ips, rejected, handlers, listening,
                   battery, notifications, thread, vehicles, vehicle_data,
                   now, rx, wire>>

\* a block or unblock command is generated
GenerateCommand(bit) ==
    /\ outbound' = [kind |-> "GTOUT", parsed |-> << >>, at |-> now,
                    text |-> gtout_text(bit)]
    /\ UNCHANGED <<client_sockets, conn_ip, connected_devices, commands_sent,
                   sent_at, allowed_ips, rejected, handlers, listening,
                   battery, notifications, thread, vehicles, vehicle_data,
                   now, rx, wire>>

OutboundNext ==
    \/ \E parsed_data \in ParsedReports : GenerateAck(parsed_data)
    \/ \E bit \in {"0", "1"} : GenerateCommand(bit)
    \/ Minute

OutboundSpec == Init /\ [][OutboundNext]_vars

\* the number of '$' in a text
RECURSIVE Dollars(_)
Dollars(text) ==
    IF text = << >> THEN 0
    ELSE (IF Head(text) = "$" THEN 1 ELSE 0) + Dollars(Tail(text))

\* C35: a generated frame has exactly one '$', at its end; the ACK for a
\* report with type and IMEI is +ACK:<type>,<version>,<imei>,,<count>,
\* <timestamp>,11F0$ with type, version, IMEI and count of the report, and
\* no ACK is generated for a report without IMEI.
C35_OutboundFrameFormat ==
    /\ outbound.text # << >>
       => /\ Dollars(outbound.text) = 1
          /\ outbound.text[Len(outbound.text)] = "$"
    /\ (outbound.kind = "ACK" /\ outbound.parsed.imei = "")
       => outbound.text = << >>
    /\ (/\ outbound.kind = "ACK"
        /\ outbound.parsed.imei # ""
        /\ outbound.parsed.report_type # "")
       => outbound.text =
            <<"+ACK:", outbound.parsed.report_type, ",",
              outbound.parsed.protocol_version, ",", outbound.parsed.imei,
              ",", ",", outbound.parsed.count, ",", ToString(outbound.at),
              ",", "11F0", "$">>

(* ------------- handler threads, statement by statement ---------------- *)
\* begin_receive runs in one thread per connection and the class holds no
\* lock: between two statements of one thread the other threads and the admin
\* tooling may run. thread[c] is where connection c's thread stands, with
\* the locals it holds: the IMEI and the row it read (vehicle), and in
\* cleanup_connection the size connected_devices had when the loop over
\* its items began. wire keeps every write since the start.
RaceIMEIs == {"X", "Y"}

RaceInit ==
    /\ client_sockets = Conns
    /\ handlers = Conns
    /\ conn_ip \in [Conns -> IPs]
    /\ connected_devices = << >>
    /\ commands_sent = {}
    /\ sent_at = << >>
    /\ allowed_ips = ALLOWED_IPS
    /\ rejected = {}
    /\ listening = TRUE
    /\ battery = << >>
    /\ notifications = << >>
    /\ outbound = NoText
    /\ thread = [c \in Conns |-> AtRecv]
    /\ vehicles \in {[i \in IMEIs |-> [NewVehicle EXCEPT !.comandobloqueo = b,
                                                         !.comandotrocarip = t]] :
                        b \in {"None", "True"}, t \in {"None", "True"}}
    /\ vehicle_data = << >>
    /\ now = 0
    /\ rx = NoRx
    /\ wire = << >>

\* a frame of IMEI imei read on connection c: the registration, then
\* execute_immediate_commands reads the row
ReadRow(c, imei) ==
    /\ c \in client_sockets
    /\ thread[c].pc = "recv"
    /\ connected_devices' = register(Cur, c, imei).cd
    /\ thread' = [thread EXCEPT ![c] =
                     IF imei \in DOMAIN vehicles
                     THEN [AtRecv EXCEPT !.pc = "check", !.imei = imei,
                                         !.vehicle = vehicles[imei]]
                     ELSE AtRecv]
    /\ UNCHANGED <<client_sockets, conn_ip, commands_sent, sent_at,
                   allowed_ips, rejected, handlers, listening, battery,
                   notifications, outbound, vehicles, vehicle_data, now, rx,
                   wire>>

\* if command_key not in self.commands_sent
CheckMarker(c) ==
    /\ thread[c].pc = "check"
    /\ LET comando_pendente == thread[c].vehicle.comandobloqueo
           command_key == <<thread[c].imei, comando_pendente>>
       IN thread' = [thread EXCEPT ![c].pc =
                        IF /\ comando_pendente # "None"
                           /\ command_key \notin commands_sent
                        THEN "send" ELSE "ip"]
    /\ UNCHANGED <<client_sockets, conn_ip, connected_devices, commands_sent,
                   sent_at, allowed_ips, rejected, handlers, listening,
                   battery, notifications, outbound, vehicles, vehicle_data,
                   now, rx, wire>>

\* self.send_data(client_socket, comando), then
\* self.commands_sent[command_key] = True
SendBlock(c) ==
    /\ thread[c].pc = "send"
    /\ LET comando_pendente == thread[c].vehicle.comandobloqueo
           command_key == <<thread[c].imei, comando_pendente>>
           bit == IF comando_pendente = "True" THEN "1" ELSE "0"
       IN /\ wire' = Append(wire, [conn |-> c, kind |-> "GTOUT", bit |-> bit])
          /\ commands_sent' = commands_sent \cup {command_key}
          /\ sent_at' = (command_key :> now) @@ sent_at
    /\ thread' = [thread EXCEPT ![c].pc = "ip"]
    /\ UNCHANGED <<client_sockets, conn_ip, connected_devices, allowed_ips,
                   rejected, handlers, listening, battery, notifications,
                   outbound, vehicles, vehicle_data, now, rx>>

\* vehicle_data = dict(vehicle); vehicle_data['comandotrocarip'] = False;
\* Vehicle(**vehicle_data): every field of the row read at the start
vehicle_write_back(vehicle) ==
    [vehicle EXCEPT !.comandotrocarip = "False"]

\* 2. the pending IP change of the row read at the start: GTSRI is sent and
\*    upsert_vehicle(updated_vehicle) sets every field it was given
WriteBack(c) ==
    /\ thread[c].pc = "ip"
    /\ LET imei == thread[c].imei
           vehicle == thread[c].vehicle
       IN IF vehicle.comandotrocarip = "True"
          THEN /\ wire' = Append(wire, [conn |-> c, kind |-> "GTSRI",
                                        bit |-> ""])
               /\ vehicles' = [vehicles EXCEPT
                                  ![imei] = vehicle_write_back(vehicle)]
          ELSE UNCHANGED <<wire, vehicles>>
    /\ thread' = [thread EXCEPT ![c] = AtRecv]
    /\ UNCHANGED <<client_sockets, conn_ip, connected_devices, commands_sent,
                   sent_at, allowed_ips, rejected, handlers, listening,
                   battery, notifications, outbound, vehicle_data, now, rx>>

\* the admin tooling requests a block or an unblock of a vehicle with no
\* request pending, while handlers run
RaceAdminSetBlock(imei, b) ==
    /\ imei \in DOMAIN vehicles
    /\ vehicles[imei].comandobloqueo = "None"
    /\ vehicles' = [vehicles EXCEPT ![imei].comandobloqueo = b]
    /\ UNCHANGED <<client_sockets, conn_ip, connected_devices, commands_sent,
                   sent_at, allowed_ips, rejected, handlers, listening,
                   battery, notifications, outbound, thread, vehicle_data,
                   now, rx, wire>>

\* cleanup_connection, first half: the socket leaves client_sockets and the
\* loop over self.connected_devices.items() begins
CleanupBegin(c) ==
    /\ c \in client_sockets
    /\ thread[c].pc = "recv"
    /\ client_sockets' = client_sockets \ {c}
    /\ thread' = [thread EXCEPT ![c] =
                     [AtRecv EXCEPT !.pc = "cleanup",
                                    !.size = Cardinality(DOMAIN connected_devices)]]
    /\ UNCHANGED <<conn_ip, connected_devices, commands_sent, sent_at,
                   allowed_ips, rejected, handlers, listening, battery,
                   notifications, outbound, vehicles, vehicle_data, now, rx,
                   wire>>

\* the loop over the items: a dictionary that changed size since the loop
\* began raises RuntimeError, which the bare except swallows with nothing
\* removed
cleanup_loop(cd, client_ip, size) ==
    IF Cardinality(DOMAIN cd) = size THEN cleanup_registry(cd, client_ip)
    ELSE cd

\* cleanup_connection, second half, and the end of the thread
CleanupEnd(c) ==
    /\ thread[c].pc = "cleanup"
    /\ connected_devices' =
           cleanup_loop(connected_devices, conn_ip[c], thread[c].size)
    /\ conn_ip' = [conn_ip EXCEPT ![c] = ""]
    /\ handlers' = handlers \ {c}
    /\ thread' = [thread EXCEPT ![c] = AtRecv]
    /\ UNCHANGED <<client_sockets, commands_sent, sent_at, allowed_ips,
                   rejected, listening, battery, notifications, outbound,
                   vehicles, vehicle_data, now, rx, wire>>

RaceNext ==
    \/ \E c \in Conns, i \in RaceIMEIs : ReadRow(c, i)
    \/ \E c \in Conns : CheckMarker(c)
    \/ \E c \in Conns : SendBlock(c)
    \/ \E c \in Conns : WriteBack(c)
    \/ \E i \in IMEIs, b \in {"True", "False"} : RaceAdminSetBlock(i, b)
    \/ \E c \in Conns : CleanupBegin(c)
    \/ \E c \in Conns : CleanupEnd(c)

RaceSpec == RaceInit /\ [][RaceNext]_vars

\* C33: the handler step that writes a row back leaves the row's pending
\* block command as the store holds it: a request the admin wrote after the
\* handler read the row is still there when the handler is done.
C33_WriteBackKeepsAdminFlags ==
    [][\A c \in Conns :
         (thread[c].pc = "ip" /\ thread'[c].pc = "recv")
         => \A i \in DOMAIN vehicles :
               vehicles'[i].comandobloqueo = vehicles[i].comandobloqueo]_vars

\* the positions of wire where GTOUT with the given bit was written
GtoutWrites(bit) ==
    {k \in 1..Len(wire) : wire[k].kind = "GTOUT" /\ wire[k].bit = bit}

\* C37: with the markers never cleared, each block command (bit 1) and each
\* unblock command (bit 0) is written at most once, over all connections.
C37_GtoutWrittenOncePerMarker ==
    \A bit \in {"0", "1"} : Cardinality(GtoutWrites(bit)) <= 1

=============================================================================
